---------------------------- MODULE Spec2Model ----------------------------
(***************************************************************************)
(* Island genetic algorithm for the 0/1 knapsack problem                   *)
(* (island_genetic_algorithm.py).                                          *)
(*                                                                         *)
(* Two state machines share this module:                                   *)
(*   Spec       IslandGeneticAlgorithm.driver: cycles, the EVOLVING loop,  *)
(*              the k_parallel island futures of a generation and their    *)
(*              collection with as_completed.                              *)
(*   SpecCodec  the pure function get_genome_sequence applied to bounded   *)
(*              inputs.                                                    *)
(* The base class GeneticAlgorithm (standard_genetic_algorithm.py) is not  *)
(* part of the sources at hand: init_population, selection, crossover and  *)
(* mutation are modelled from the specification text.                      *)
(***************************************************************************)
EXTENDS Integers, Sequences, FiniteSets, TLC

VARIABLES
    cfg,             \* the run's configuration: cycle, init_pop_size, selection_percentage, k_parallel
    pc,              \* the driver's position
    c,               \* number of cycles started (the for loop's progress)
    population,      \* driver's local `population`
    winner_genomes,  \* driver's local `winner_genomes`
    futures,         \* driver's local `futures`: one record per submitted island task
    collected,       \* indices of the futures as_completed has yielded, in that order
    best_genome,     \* the value driver returns
    error,           \* the exception that left driver, "" when none
    iter,            \* history: what the current EVOLVING iteration did
    codec,           \* SpecCodec: a call of get_genome_sequence, then of get_genome_value, and the results
    fit              \* SpecFitness: calls of fitness_func on one problem instance and their results

vars == <<cfg, pc, c, population, winner_genomes, futures, collected,
          best_genome, error, iter, codec, fit>>

driverVars == <<cfg, pc, c, population, winner_genomes, futures, collected,
                best_genome, error, iter>>

-----------------------------------------------------------------------------
(* Bounds of the model *)

MaxCycle == 2
MaxInitPop == 2
MaxK == 2
MaxOffspring == 2
MaxCode == 20
MaxWidth == 4
MaxZeros == 2
MaxItems == 2
MaxWeight == 2
MaxValue == 2
MaxCapacity == 3

-----------------------------------------------------------------------------
(* Small helpers *)

Max(a, b) == IF a >= b THEN a ELSE b

Min(a, b) == IF a <= b THEN a ELSE b

Range(s) == {s[i] : i \in 1..Len(s)}

SeqsOfLen(S, lens) == UNION {[1..l -> S] : l \in lens}

-----------------------------------------------------------------------------
(* GenomeCodec *)

\* bin(num)[2:] for num >= 0: the binary digits, most significant first
RECURSIVE Bin(_)
Bin(num) == IF num < 2 THEN <<num>> ELSE Append(Bin(num \div 2), num % 2)

\* str.zfill(outwidth): zeros on the left up to outwidth, never a cut
ZFill(s, outwidth) ==
    IF Len(s) >= outwidth THEN s
    ELSE [i \in 1..outwidth |->
            IF i <= outwidth - Len(s) THEN 0 ELSE s[i - (outwidth - Len(s))]]

\* a binary_repr that cuts to the low-order `width` bits when the width is too small
binary_repr_truncating(num, width) ==
    LET full == ZFill(Bin(num), Max(Len(Bin(num)), width))
    IN  SubSeq(full, Len(full) - width + 1, Len(full))

\* numpy.binary_repr(num, width) for num >= 0, width >= 0:
\*   num == 0 gives '0' * (width or 1); num > 0 gives bin(num)[2:] filled to
\*   max(binwidth, width), so a width that is too small is ignored
binary_repr(num, width) ==
    IF num = 0 THEN [i \in 1..(IF width = 0 THEN 1 ELSE width) |-> 0]
    ELSE ZFill(Bin(num), Max(Len(Bin(num)), width))

\* a decode that puts the least significant bit first
get_genome_sequence_reversed(code, padding) ==
    LET s == binary_repr(code, padding)
    IN  [i \in 1..Len(s) |-> s[Len(s) + 1 - i]]

\* np.array([int(x) for x in np.binary_repr(code, padding)])
get_genome_sequence(code, padding) == binary_repr(code, padding)

-----------------------------------------------------------------------------
(* Problem instance and FitnessEvaluator *)

\* A Knapsack object as loaded from a json file: n, weights, values, capacity
knapsack_obj == [n |-> 2, weights |-> <<2, 3>>, values |-> <<3, 4>>, capacity |-> 4]

\* seed_range: (0, 2 ** n - 1)
GenomeRange == 0..(2^(knapsack_obj.n) - 1)

\* a dot product that returns its first non-zero term instead of the sum
RECURSIVE DotFrom_first_term(_, _, _)
DotFrom_first_term(a, b, i) ==
    IF i > Len(a) THEN 0
    ELSE IF a[i] * b[i] # 0 THEN a[i] * b[i]
    ELSE DotFrom_first_term(a, b, i + 1)

\* np.dot of two vectors of the same length
RECURSIVE DotFrom(_, _, _)
DotFrom(a, b, i) == IF i > Len(a) THEN 0 ELSE a[i] * b[i] + DotFrom(a, b, i + 1)

Dot(a, b) == DotFrom(a, b, 1)

\* an infeasibility sentinel that is the number 0
NINF_zero == [ninf |-> FALSE, val |-> 0]

\* np.NINF: a fitness is either negative infinity or an integer profit
NINF == [ninf |-> TRUE, val |-> 0]

Profit(v) == [ninf |-> FALSE, val |-> v]

\* a > b on fitness values, as Python compares floats and integers
FitGreater(a, b) == ~a.ninf /\ (b.ninf \/ a.val > b.val)

FitGeq(a, b) == b.ninf \/ (~a.ninf /\ a.val >= b.val)

\* a fitness that takes a load equal to the capacity for too heavy
fitness_func_k_strict(code, k) ==
    LET genome == get_genome_sequence(code, k.n)
    IN  IF Dot(genome, k.weights) < k.capacity
        THEN Profit(Dot(genome, k.values))
        ELSE NINF

\* np.dot raises when the genome has not as many elements as the vector
fitness_raises(code, k) == Len(get_genome_sequence(code, k.n)) # Len(k.weights)

fitness_func_k(code, k) ==
    LET genome == get_genome_sequence(code, k.n)
    IN  IF Dot(genome, k.weights) <= k.capacity
        THEN Profit(Dot(genome, k.values))
        ELSE NINF

\* self.fitness_func: lambda genome: fitness_func(genome, knapsack_object)
fitness_func(g) == fitness_func_k(g, knapsack_obj)

\* max(seq, key=fitness_func): the first element whose key no other exceeds
RECURSIVE MaxByFrom(_, _, _)
MaxByFrom(seq, i, best) ==
    IF i > Len(seq) THEN best
    ELSE MaxByFrom(seq, i + 1,
                   IF FitGreater(fitness_func(seq[i]), fitness_func(best)) THEN seq[i] ELSE best)

\* a max that ignores the key and takes the first element
MaxByFitness_first(seq) == seq[1]

MaxByFitness(seq) == MaxByFrom(seq, 2, seq[1])

-----------------------------------------------------------------------------
(* PopulationOperators of the base class *)

\* init_population: init_pop_size genomes drawn from seed_range, duplicates allowed
init_population(size) == [1..size -> GenomeRange]

\* stable insertion of g into a sequence sorted by descending fitness
RECURSIVE InsertDesc(_, _)
InsertDesc(sorted, g) ==
    IF sorted = <<>> THEN <<g>>
    ELSE IF FitGreater(fitness_func(g), fitness_func(sorted[Len(sorted)]))
         THEN Append(InsertDesc(SubSeq(sorted, 1, Len(sorted) - 1), g), sorted[Len(sorted)])
         ELSE Append(sorted, g)

RECURSIVE SortDesc(_)
SortDesc(seq) ==
    IF seq = <<>> THEN <<>>
    ELSE InsertDesc(SortDesc(SubSeq(seq, 1, Len(seq) - 1)), seq[Len(seq)])

\* ceil(num * len / den) for a fraction num/den with den > 0
CeilMul(p, len) == (p.num * len + p.den - 1) \div p.den

\* selection: the top ceil(percentage * size) genomes by fitness, at least one
selection(pop, p) ==
    SubSeq(SortDesc(pop), 1, Min(Len(pop), Max(1, CeilMul(p, Len(pop)))))

\* bit i (1 = most significant) of a genome at the instance's width
Bit(g, i) == get_genome_sequence(g, knapsack_obj.n)[i]

\* uniform crossover of two parents: every bit comes from one of the two
Children(pop) ==
    {g \in GenomeRange :
        \E a \in Range(pop), b \in Range(pop) :
            \A i \in 1..knapsack_obj.n : Bit(g, i) \in {Bit(a, i), Bit(b, i)}}

\* crossover: a non-empty sequence of children of the survivors
crossover(pop) == SeqsOfLen(Children(pop), 1..MaxOffspring)

\* bit-flip mutation: every bit of every offspring may flip, the width is kept
mutation(pop) == [1..Len(pop) -> GenomeRange]

\* crossover_mutation: mutation(crossover(population)), duplicates kept
crossover_mutation(pop) == UNION {mutation(o) : o \in crossover(pop)}

-----------------------------------------------------------------------------
(* numpy operations of the driver *)

\* an accumulation that overwrites instead of stacking
hstack_overwrite(a, b) == b

\* np.hstack((a, b))
hstack(a, b) == a \o b

\* the elements of a finite set of integers in ascending order
RECURSIVE Ascending(_)
Ascending(S) ==
    IF S = {} THEN <<>>
    ELSE LET m == CHOOSE x \in S : \A y \in S : x <= y
         IN  <<m>> \o Ascending(S \ {m})

\* a duplicate removal that is left out
unique_left_out(a) == a

\* np.unique(a): the sorted unique elements
unique(a) == Ascending(Range(a))

-----------------------------------------------------------------------------
(* Configurations *)

\* selection_percentage as an exact fraction; every value used is a dyadic
\* rational, so the float product selection_percentage * len(population) is exact
Fraction(n, d) == [num |-> n, den |-> d]

SelectionPercentages == {Fraction(0, 1), Fraction(1, 2), Fraction(1, 1), Fraction(3, 2)}

\* every configuration a caller can hand to the constructor and to driver
Configs ==
    [cycle : 0..MaxCycle,
     init_pop_size : 1..MaxInitPop,
     selection_percentage : SelectionPercentages,
     k_parallel : 0..MaxK]

\* the configurations the specification calls valid
ValidConfig(cf) ==
    /\ cf.cycle >= 1
    /\ cf.init_pop_size >= 1
    /\ cf.selection_percentage.num > 0
    /\ cf.selection_percentage.num <= cf.selection_percentage.den
    /\ cf.k_parallel >= 1

\* a guard that compares with < instead of <=
GuardHolds_strict(p, pop) == p.num * Len(pop) < p.den

\* selection_percentage * len(population) <= 1
GuardHolds(p, pop) == p.num * Len(pop) <= p.den

-----------------------------------------------------------------------------
(* IslandGeneticAlgorithm.driver *)

NoGenome == -1

FreshIter == [start_len |-> 0, guard |-> FALSE, selected |-> FALSE, merged |-> FALSE,
              survivors |-> <<>>]

IdleCodec == [code |-> 0, width |-> 0, out |-> <<>>, done |-> FALSE,
              value |-> 0, zeros |-> 0, padded |-> 0, encoded |-> FALSE]

\* the instance of the end-to-end scenario
ExampleInstance ==
    [n |-> 4, weights |-> <<2, 3, 4, 5>>, values |-> <<3, 4, 5, 6>>, capacity |-> 5]

IdleFit == [inst |-> ExampleInstance, given |-> ExampleInstance, a |-> 0, b |-> 0, wa |-> 0, wb |-> 0,
            ra |-> NINF, rb |-> NINF, chosen |-> NoGenome,
            raised |-> FALSE, done |-> FALSE]

Init ==
    /\ cfg \in Configs
    /\ pc = "for"
    /\ c = 0
    /\ population = <<>>
    /\ winner_genomes = <<>>
    /\ futures = <<>>
    /\ collected = <<>>
    /\ best_genome = NoGenome
    /\ error = ""
    /\ iter = FreshIter
    /\ codec = IdleCodec
    /\ fit = IdleFit

Finished(f) == f.state \in {"done", "failed"}

\* for _ in range(self.cycle): population = self.init_population()
CycleStart ==
    /\ pc = "for"
    /\ c < cfg.cycle
    /\ \E p \in init_population(cfg.init_pop_size) : population' = p
    /\ c' = c + 1
    /\ pc' = "while"
    /\ iter' = FreshIter
    /\ futures' = <<>>
    /\ collected' = <<>>
    /\ UNCHANGED <<cfg, winner_genomes, best_genome, error, codec, fit>>

\* a loop test that also enters the body with a single genome
LoopTest_geq ==
    /\ pc = "while"
    /\ pc' = IF Len(population) >= 1 THEN "guard" ELSE "cycle_done"
    /\ iter' = IF Len(population) >= 1
               THEN [FreshIter EXCEPT !.start_len = Len(population)]
               ELSE iter
    /\ futures' = <<>>
    /\ collected' = <<>>
    /\ UNCHANGED <<cfg, c, population, winner_genomes, best_genome, error, codec, fit>>

\* while len(population) > 1
LoopTest ==
    /\ pc = "while"
    /\ pc' = IF Len(population) > 1 THEN "guard" ELSE "cycle_done"
    /\ iter' = IF Len(population) > 1
               THEN [FreshIter EXCEPT !.start_len = Len(population)]
               ELSE iter
    /\ futures' = <<>>
    /\ collected' = <<>>
    /\ UNCHANGED <<cfg, c, population, winner_genomes, best_genome, error, codec, fit>>

\* if selection_percentage * len(population) <= 1:
\*     population = [max(population, key=...)]; break
Guard ==
    /\ pc = "guard"
    /\ GuardHolds(cfg.selection_percentage, population)
    /\ population' = <<MaxByFitness(population)>>
    /\ iter' = [iter EXCEPT !.guard = TRUE]
    /\ pc' = "cycle_done"
    /\ UNCHANGED <<cfg, c, winner_genomes, futures, collected, best_genome, error, codec, fit>>

\* population = self.selection(population, selection_percentage)
Select ==
    /\ pc = "guard"
    /\ ~GuardHolds(cfg.selection_percentage, population)
    /\ population' = selection(population, cfg.selection_percentage)
    /\ iter' = [iter EXCEPT !.selected = TRUE,
                            !.survivors = selection(population, cfg.selection_percentage)]
    /\ pc' = "submit"
    /\ UNCHANGED <<cfg, c, winner_genomes, futures, collected, best_genome, error, codec, fit>>

\* a submission that hands the islands the accumulator after its reset
Submit_after_reset ==
    /\ pc = "submit"
    /\ futures' = [i \in 1..cfg.k_parallel |->
                      [state |-> "running", arg |-> <<>>, result |-> <<>>]]
    /\ collected' = <<>>
    /\ population' = <<>>
    /\ pc' = "collect"
    /\ UNCHANGED <<cfg, c, winner_genomes, best_genome, error, iter, codec, fit>>

\* a submission of one task too many
Submit_one_more ==
    /\ pc = "submit"
    /\ futures' = [i \in 1..(cfg.k_parallel + 1) |->
                      [state |-> "running", arg |-> population, result |-> <<>>]]
    /\ collected' = <<>>
    /\ population' = <<>>
    /\ pc' = "collect"
    /\ UNCHANGED <<cfg, c, winner_genomes, best_genome, error, iter, codec, fit>>

\* futures = [executor.submit(self.crossover_mutation, population) for _ in range(k_parallel)]
\* population = np.array([], dtype=int)
Submit ==
    /\ pc = "submit"
    /\ futures' = [i \in 1..cfg.k_parallel |->
                      [state |-> "running", arg |-> population, result |-> <<>>]]
    /\ collected' = <<>>
    /\ population' = <<>>
    /\ pc' = "collect"
    /\ UNCHANGED <<cfg, c, winner_genomes, best_genome, error, iter, codec, fit>>

\* an island task returns its offspring
IslandReturn(i) ==
    /\ i \in DOMAIN futures
    /\ futures[i].state = "running"
    /\ \E r \in crossover_mutation(futures[i].arg) :
           futures' = [futures EXCEPT ![i].state = "done", ![i].result = r]
    /\ UNCHANGED <<cfg, pc, c, population, winner_genomes, collected, best_genome,
                   error, iter, codec, fit>>

\* an island task raises
IslandRaise(i) ==
    /\ i \in DOMAIN futures
    /\ futures[i].state = "running"
    /\ futures' = [futures EXCEPT ![i].state = "failed"]
    /\ UNCHANGED <<cfg, pc, c, population, winner_genomes, collected, best_genome,
                   error, iter, codec, fit>>

\* a collection loop that swallows a task's exception and goes on
Collect_swallows(i) ==
    /\ pc = "collect"
    /\ i \in DOMAIN futures
    /\ i \notin Range(collected)
    /\ Finished(futures[i])
    /\ collected' = Append(collected, i)
    /\ population' = hstack(population, futures[i].result)
    /\ UNCHANGED <<cfg, pc, c, winner_genomes, futures, best_genome, error, iter, codec, fit>>

\* for f in as_completed(futures): population = np.hstack((population, f.result()))
\* as_completed yields a finished future; f.result() re-raises the task's exception
Collect(i) ==
    /\ pc = "collect"
    /\ i \in DOMAIN futures
    /\ i \notin Range(collected)
    /\ Finished(futures[i])
    /\ collected' = Append(collected, i)
    /\ IF futures[i].state = "done"
       THEN /\ population' = hstack(population, futures[i].result)
            /\ UNCHANGED <<pc, error>>
       ELSE /\ pc' = "aborting"
            /\ error' = "IslandError"
            /\ UNCHANGED population
    /\ UNCHANGED <<cfg, c, winner_genomes, futures, best_genome, iter, codec, fit>>

\* leaving the with block on an exception: executor.shutdown(wait=True) joins
\* every task, then the exception leaves driver
Abort ==
    /\ pc = "aborting"
    /\ \A i \in DOMAIN futures : Finished(futures[i])
    /\ pc' = "raised"
    /\ UNCHANGED <<cfg, c, population, winner_genomes, futures, collected,
                   best_genome, error, iter, codec, fit>>

\* a merge that goes on as soon as the first result has arrived
Unique_first_completed ==
    /\ pc = "collect"
    /\ Len(collected) >= Min(1, Len(futures))
    /\ population' = unique(population)
    /\ iter' = [iter EXCEPT !.merged = TRUE]
    /\ pc' = "while"
    /\ UNCHANGED <<cfg, c, winner_genomes, futures, collected, best_genome, error, codec, fit>>

\* the as_completed loop has yielded every future; the with block is left;
\* population = np.unique(population)
Unique ==
    /\ pc = "collect"
    /\ Len(collected) = Len(futures)
    /\ population' = unique(population)
    /\ iter' = [iter EXCEPT !.merged = TRUE]
    /\ pc' = "while"
    /\ UNCHANGED <<cfg, c, winner_genomes, futures, collected, best_genome, error, codec, fit>>

\* winner_genomes.append(population[0])
RecordWinner ==
    /\ pc = "cycle_done"
    /\ IF population = <<>>
       THEN /\ pc' = "raised"
            /\ error' = "IndexError"
            /\ UNCHANGED winner_genomes
       ELSE /\ winner_genomes' = Append(winner_genomes, population[1])
            /\ pc' = "for"
            /\ UNCHANGED error
    /\ UNCHANGED <<cfg, c, population, futures, collected, best_genome, iter, codec, fit>>

\* best_genome = max(winner_genomes, key=...); return best_genome
Finalize ==
    /\ pc = "for"
    /\ c = cfg.cycle
    /\ IF winner_genomes = <<>>
       THEN /\ pc' = "raised"
            /\ error' = "ValueError"
            /\ UNCHANGED best_genome
       ELSE /\ best_genome' = MaxByFitness(winner_genomes)
            /\ pc' = "returned"
            /\ UNCHANGED error
    /\ UNCHANGED <<cfg, c, population, winner_genomes, futures, collected, iter, codec, fit>>

Next ==
    \/ CycleStart
    \/ LoopTest
    \/ Guard
    \/ Select
    \/ Submit
    \/ \E i \in 1..MaxK : IslandReturn(i)
    \/ \E i \in 1..MaxK : IslandRaise(i)
    \/ \E i \in 1..MaxK : Collect(i)
    \/ Abort
    \/ Unique
    \/ RecordWinner
    \/ Finalize

Spec == Init /\ [][Next]_vars

-----------------------------------------------------------------------------
(* The codec applied to bounded inputs *)

\* an encode that reads the sequence least significant bit first
RECURSIVE get_genome_value_lsb(_)
get_genome_value_lsb(genome) ==
    IF genome = <<>> THEN 0
    ELSE genome[1] + 2 * get_genome_value_lsb(Tail(genome))

\* int('0b' + ''.join(str(i) for i in genome), 2): most significant bit first
RECURSIVE get_genome_value(_)
get_genome_value(genome) ==
    IF genome = <<>> THEN 0
    ELSE 2 * get_genome_value(SubSeq(genome, 1, Len(genome) - 1)) + genome[Len(genome)]

InitCodec ==
    /\ cfg = [cycle |-> 0, init_pop_size |-> 1,
              selection_percentage |-> Fraction(1, 1), k_parallel |-> 1]
    /\ pc = "codec"
    /\ c = 0
    /\ population = <<>>
    /\ winner_genomes = <<>>
    /\ futures = <<>>
    /\ collected = <<>>
    /\ best_genome = NoGenome
    /\ error = ""
    /\ iter = FreshIter
    /\ fit = IdleFit
    /\ \E code \in 0..MaxCode, width \in 1..MaxWidth :
           codec = [IdleCodec EXCEPT !.code = code, !.width = width]

\* a call get_genome_sequence(code, width)
Decode ==
    /\ pc = "codec"
    /\ ~codec.done
    /\ codec' = [codec EXCEPT !.out = get_genome_sequence(codec.code, codec.width),
                              !.done = TRUE]
    /\ UNCHANGED <<driverVars, fit>>

\* z zeros
Zeros(z) == [i \in 1..z |-> 0]

\* a call get_genome_value(out) on the decoded sequence, and one on the same
\* sequence with zeros prepended
Encode ==
    /\ pc = "codec"
    /\ codec.done
    /\ ~codec.encoded
    /\ \E z \in 1..MaxZeros :
           codec' = [codec EXCEPT !.value = get_genome_value(codec.out),
                                  !.zeros = z,
                                  !.padded = get_genome_value(Zeros(z) \o codec.out),
                                  !.encoded = TRUE]
    /\ UNCHANGED <<driverVars, fit>>

NextCodec == Decode \/ Encode

SpecCodec == InitCodec /\ [][NextCodec]_vars

-----------------------------------------------------------------------------
(* The fitness function applied to bounded problem instances *)

\* Knapsack objects: n items, index-aligned weights and values, a capacity
Instances ==
    {ExampleInstance} \cup
    UNION {[n : {n}, weights : [1..n -> 0..MaxWeight],
            values : [1..n -> 1..MaxValue], capacity : 1..MaxCapacity]
           : n \in 1..MaxItems}

\* max([a, b], key=...): the second only when its key is greater
MaxOfTwo(a, ra, b, rb) == IF FitGreater(rb, ra) THEN b ELSE a

InitFitness ==
    /\ cfg = [cycle |-> 0, init_pop_size |-> 1,
              selection_percentage |-> Fraction(1, 1), k_parallel |-> 1]
    /\ pc = "fitness"
    /\ c = 0
    /\ population = <<>>
    /\ winner_genomes = <<>>
    /\ futures = <<>>
    /\ collected = <<>>
    /\ best_genome = NoGenome
    /\ error = ""
    /\ iter = FreshIter
    /\ codec = IdleCodec
    /\ \E k \in Instances :
           \E a \in 0..(2^k.n), b \in 0..(2^k.n) :
               fit = [IdleFit EXCEPT !.inst = k, !.given = k, !.a = a, !.b = b]

\* fitness_func(a, inst), fitness_func(b, inst) and the max of the two by fitness
Evaluate ==
    /\ pc = "fitness"
    /\ ~fit.done
    /\ IF fitness_raises(fit.a, fit.inst) \/ fitness_raises(fit.b, fit.inst)
       THEN fit' = [fit EXCEPT !.raised = TRUE, !.done = TRUE]
       ELSE LET ra == fitness_func_k(fit.a, fit.inst)
                rb == fitness_func_k(fit.b, fit.inst)
            IN  fit' = [fit EXCEPT
                          !.wa = Dot(get_genome_sequence(fit.a, fit.inst.n), fit.inst.weights),
                          !.wb = Dot(get_genome_sequence(fit.b, fit.inst.n), fit.inst.weights),
                          !.ra = ra,
                          !.rb = rb,
                          !.chosen = MaxOfTwo(fit.a, ra, fit.b, rb),
                          !.done = TRUE]
    /\ UNCHANGED <<driverVars, codec>>

NextFitness == Evaluate

SpecFitness == InitFitness /\ [][NextFitness]_vars

-----------------------------------------------------------------------------
(* Properties of the driver *)

\* the results of the futures named by `order`, stacked in that order
RECURSIVE ConcatResults(_, _)
ConcatResults(fs, order) ==
    IF order = <<>> THEN <<>>
    ELSE fs[Head(order)].result \o ConcatResults(fs, Tail(order))

IndexOrder(fs) == [i \in 1..Len(fs) |-> i]

\* the state right after np.unique: the merge of a generation is complete
AfterMerge == pc = "while" /\ iter.merged

\* C1: in a valid configuration every EVOLVING iteration that the degenerate
\* guard does not end leaves a population strictly smaller than the one it
\* started with (so the loop reaches a population of size <= 1).
C1_IterationShrinks ==
    (ValidConfig(cfg) /\ AfterMerge) => Len(population) < iter.start_len

\* C2: when the driver uses the merged population, all k_parallel island tasks
\* have completed, and the population is the same whatever the order in which
\* as_completed yielded them: it equals the duplicate-free merge of the island
\* outputs taken in submission order.
C2_BarrierOrderIndependent ==
    AfterMerge =>
        /\ Len(futures) = cfg.k_parallel
        /\ \A i \in DOMAIN futures : futures[i].state = "done"
        /\ population = unique(ConcatResults(futures, IndexOrder(futures)))

\* a generation whose second island completed first and whose islands returned
\* different offspring
C2_Witness ==
    /\ AfterMerge
    /\ collected = <<2, 1>>
    /\ futures[1].result = <<3>>
    /\ futures[2].result = <<0, 3>>
    /\ population = <<0, 3>>

\* C3 (as stated): the accumulator never holds the outputs of some but not all
\* islands; results are merged in one all-or-nothing step.
C3_AllOrNothing ==
    (error = "") => (population = <<>> \/ Len(collected) = Len(futures))

\* C3 (amended): results are stacked one by one as they are yielded, so the
\* accumulator holds exactly the outputs of the islands yielded so far; such a
\* partial accumulator exists only inside the collection loop (or on the way
\* out with an exception) and is never deduplicated, tested or selected from.
C3_PartialOnlyWhileCollecting ==
    /\ (Len(collected) < Len(futures)) => pc \in {"collect", "aborting", "raised"}
    /\ (pc \in {"collect", "aborting"}) => population = ConcatResults(futures, collected)

\* one of two islands has been stacked while the other is still running
C3_Witness ==
    /\ pc = "collect"
    /\ Len(futures) = 2
    /\ collected = <<2>>
    /\ futures[1].state = "running"
    /\ population = futures[2].result
    /\ population # <<>>

\* C4: if an island task of a generation raises, the generation fails and the
\* error leaves driver: the driver is never past the merge with a failed task,
\* and once the failure has been seen it records no winner for the cycle,
\* starts no further generation and returns nothing.
C4_IslandFailureAborts ==
    /\ (\E i \in DOMAIN futures : futures[i].state = "failed")
           => pc \in {"collect", "aborting", "raised"}
    /\ (\E i \in Range(collected) : futures[i].state = "failed")
           => error = "IslandError"
    /\ (error = "IslandError")
           => /\ pc \in {"aborting", "raised"}
              /\ best_genome = NoGenome
              /\ Len(winner_genomes) = c - 1
              /\ ~iter.merged

\* the second island raised after the first one's result had been stacked, in
\* the second cycle: the run ended with the error and one recorded winner
C4_Witness ==
    /\ pc = "raised"
    /\ error = "IslandError"
    /\ c = 2
    /\ Len(winner_genomes) = 1
    /\ collected = <<1, 2>>
    /\ futures[1].state = "done"
    /\ futures[2].state = "failed"
    /\ population = futures[1].result

\* C5: after the merge the population is the set union of the island outputs:
\* every genome of some island output occurs, nothing else occurs, no genome
\* occurs twice, and the genomes are in ascending order.
C5_MergeIsSortedUnion ==
    AfterMerge =>
        /\ Range(population) = UNION {Range(futures[i].result) : i \in DOMAIN futures}
        /\ \A i \in 1..Len(population), j \in 1..Len(population) :
               i < j => population[i] < population[j]

\* two islands whose outputs overlap and arrive out of order
C5_Witness ==
    /\ AfterMerge
    /\ Len(futures) = 2
    /\ futures[1].result = <<3, 1>>
    /\ futures[2].result = <<1, 0>>
    /\ population = <<0, 1, 3>>

\* C6: when driver returns, one winner per cycle has been recorded, the result
\* is one of them and no recorded winner has a higher fitness; the result is
\* feasible whenever some recorded winner is.
C6_ResultIsBestWinner ==
    /\ (pc \in {"for", "returned"}) => Len(winner_genomes) = c
    /\ (pc = "returned") =>
           /\ Len(winner_genomes) = cfg.cycle
           /\ best_genome \in Range(winner_genomes)
           /\ \A w \in Range(winner_genomes) :
                  FitGeq(fitness_func(best_genome), fitness_func(w))
           /\ (\E w \in Range(winner_genomes) : ~fitness_func(w).ninf)
                  => ~fitness_func(best_genome).ninf

\* two cycles, the first won by an infeasible genome, the second by a feasible one
C6_Witness ==
    /\ pc = "returned"
    /\ cfg.cycle = 2
    /\ winner_genomes = <<3, 2>>
    /\ best_genome = 2

\* C7: when selection_percentage * len(population) <= 1 at the top of an
\* iteration (population size > 1), the step taken replaces the population by
\* one of its genomes of maximal fitness and ends the cycle, with no selection
\* and no island task; the winner then recorded is that genome.
C7_GuardCollapses ==
    [][ /\ (/\ pc = "guard"
            /\ cfg.selection_percentage.num * Len(population)
                   <= cfg.selection_percentage.den)
           => /\ Len(population) > 1
              /\ pc' = "cycle_done"
              /\ Len(population') = 1
              /\ population'[1] \in Range(population)
              /\ \A g \in Range(population) :
                     FitGeq(fitness_func(population'[1]), fitness_func(g))
              /\ futures' = <<>>
              /\ ~iter'.selected
              /\ iter'.guard
        /\ (pc = "cycle_done" /\ iter.guard)
           => /\ pc' = "for"
              /\ winner_genomes' = Append(winner_genomes, population[1])
      ]_vars

\* a cycle ended by the guard on the population <<3, 0, 1>>, winner recorded
C7_Witness ==
    /\ pc = "for"
    /\ iter.guard
    /\ iter.start_len = 2
    /\ ~iter.selected
    /\ futures = <<>>
    /\ population = <<1>>
    /\ winner_genomes = <<1>>

\* C8: at CYCLE_DONE the population holds exactly one genome, and the winner
\* recorded for the cycle is that genome.
C8_SoleGenomeAtCycleDone ==
    /\ (pc = "cycle_done") => Len(population) = 1
    /\ (pc = "for" /\ c > 0) => winner_genomes[c] = population[1]

\* C9: an invalid configuration is rejected at the start of driver: no
\* population is initialised, nothing is selected, no island task is submitted
\* and no winner is returned.
C9_InvalidConfigRejected ==
    (~ValidConfig(cfg)) =>
        /\ c = 0
        /\ population = <<>>
        /\ futures = <<>>
        /\ ~iter.selected
        /\ winner_genomes = <<>>
        /\ pc # "returned"

-----------------------------------------------------------------------------
(* Properties of the codec *)

\* the number of binary digits of code (1 for 0)
BitLength(code) == CHOOSE b \in 1..(MaxCode + 1) :
                       code < 2^b /\ (b = 1 \/ code >= 2^(b - 1))

\* C10 (as stated): decode returns exactly `width` elements, the low-order
\* `width` bits of the code when the code needs more.
C10_DecodeExactWidth ==
    codec.done =>
        /\ Len(codec.out) = codec.width
        /\ get_genome_value(codec.out) = codec.code % (2^codec.width)

\* C10 (amended): for width >= 1 decode returns the most-significant-bit-first
\* binary digits of the code, zero-padded on the left to `width` when the code
\* fits in `width` bits and otherwise complete and longer than `width`: the
\* length is max(width, number of bits of the code), nothing is cut off.
C10_DecodePadsNeverTruncates ==
    codec.done =>
        /\ Len(codec.out) = Max(codec.width, BitLength(codec.code))
        /\ \A i \in 1..Len(codec.out) : codec.out[i] \in {0, 1}
        /\ get_genome_value(codec.out) = codec.code
        /\ (codec.code < 2^codec.width) => Len(codec.out) = codec.width
        /\ (codec.code >= 2^codec.width) => codec.out[1] = 1

\* the documented example get_genome_sequence(7, 2) = [1, 1, 1]
C10_Witness ==
    /\ codec.done
    /\ codec.code = 7
    /\ codec.width = 2
    /\ codec.out = <<1, 1, 1>>

\* C11: encode inverts decode on the genome range: for a code in
\* [0, 2^n - 1], get_genome_value(get_genome_sequence(code, n)) = code (and
\* decoding that value again gives the same n-element sequence); zeros
\* prepended to a bit sequence do not change the integer it encodes to.
C11_EncodeInvertsDecode ==
    codec.encoded =>
        /\ (codec.code < 2^codec.width) =>
               /\ codec.value = codec.code
               /\ get_genome_sequence(codec.value, codec.width) = codec.out
        /\ codec.padded = codec.value

\* 5 at width 4: [0, 1, 0, 1] encodes to 5, as does [0, 0, 0, 1, 0, 1]
C11_Witness ==
    /\ codec.encoded
    /\ codec.code = 5
    /\ codec.width = 4
    /\ codec.out = <<0, 1, 0, 1>>
    /\ codec.value = 5
    /\ codec.zeros = 2
    /\ codec.padded = 5

-----------------------------------------------------------------------------
(* Properties of the fitness function *)

\* the items a genome selects: item i is bit i, most significant bit first
Selected(code, n) == {i \in 1..n : (code \div 2^(n - i)) % 2 = 1}

\* the sum of v[i] over the items i of S
RECURSIVE SumOver(_, _)
SumOver(S, v) ==
    IF S = {} THEN 0
    ELSE LET i == CHOOSE x \in S : TRUE
         IN  v[i] + SumOver(S \ {i}, v)

\* total weight and total value of a genome's selection
WeightOf(code, k) == SumOver(Selected(code, k.n), k.weights)

ValueOf(code, k) == SumOver(Selected(code, k.n), k.values)

\* both genomes of the state are in [0, 2^n - 1]
InRange == fit.a < 2^fit.inst.n /\ fit.b < 2^fit.inst.n

\* C12: for a genome in [0, 2^n - 1] fitness_func returns the total value of
\* the selected items when their total weight is <= capacity (equality is
\* feasible) and negative infinity otherwise; it does not raise and leaves the
\* instance as it was given.
C12_FitnessIsValueOrNinf ==
    (fit.done /\ InRange) =>
        /\ ~fit.raised
        /\ fit.inst = fit.given
        /\ fit.ra = IF WeightOf(fit.a, fit.inst) <= fit.inst.capacity
                    THEN [ninf |-> FALSE, val |-> ValueOf(fit.a, fit.inst)]
                    ELSE [ninf |-> TRUE, val |-> 0]
        /\ fit.rb = IF WeightOf(fit.b, fit.inst) <= fit.inst.capacity
                    THEN [ninf |-> FALSE, val |-> ValueOf(fit.b, fit.inst)]
                    ELSE [ninf |-> TRUE, val |-> 0]

\* items 0 and 1 weigh exactly the capacity and are feasible; items 1, 2, 3 are not
C12_Witness ==
    /\ fit.done
    /\ fit.inst = ExampleInstance
    /\ fit.a = 12
    /\ fit.ra = [ninf |-> FALSE, val |-> 7]
    /\ fit.b = 7
    /\ fit.rb.ninf

\* C13: of two genomes, one over capacity and one not, the infeasible one has
\* the strictly lower fitness, so a maximum by fitness takes the feasible one;
\* an infeasible genome is the maximum only if both are infeasible.
C13_InfeasibleLoses ==
    (fit.done /\ InRange) =>
        LET overA == WeightOf(fit.a, fit.inst) > fit.inst.capacity
            overB == WeightOf(fit.b, fit.inst) > fit.inst.capacity
        IN  /\ (overA /\ ~overB) => (FitGreater(fit.rb, fit.ra) /\ fit.chosen = fit.b)
            /\ (~overA /\ overB) => (FitGreater(fit.ra, fit.rb) /\ fit.chosen = fit.a)
            /\ (WeightOf(fit.chosen, fit.inst) > fit.inst.capacity) => (overA /\ overB)

\* an infeasible genome first, then the empty selection of value 0
C13_Witness ==
    /\ fit.done
    /\ fit.inst = ExampleInstance
    /\ fit.a = 7
    /\ fit.ra.ninf
    /\ fit.b = 0
    /\ fit.rb = [ninf |-> FALSE, val |-> 0]
    /\ fit.chosen = 0

\* C15: on n=4, weights [2,3,4,5], values [3,4,5,6], capacity 5 no genome has
\* a fitness above 7, and 7 is the fitness of genome 12 (bits 1100) alone; a
\* maximum by fitness over candidates that include 12 is 12.
C15_ExampleOptimum ==
    (fit.done /\ InRange /\ fit.inst = ExampleInstance) =>
        /\ fit.ra.ninf \/ fit.ra.val <= 7
        /\ (~fit.ra.ninf /\ fit.ra.val = 7) <=> (fit.a = 12)
        /\ (~fit.rb.ninf /\ fit.rb.val = 7) <=> (fit.b = 12)
        /\ (fit.a = 12 \/ fit.b = 12) => fit.chosen = 12

\* 12 met after a feasible genome of lower value
C15_Witness ==
    /\ fit.done
    /\ fit.inst = ExampleInstance
    /\ fit.a = 8
    /\ fit.ra = [ninf |-> FALSE, val |-> 3]
    /\ fit.b = 12
    /\ fit.wb = 5
    /\ fit.rb = [ninf |-> FALSE, val |-> 7]
    /\ fit.chosen = 12

\* C16: with non-negative weights, if every bit set in genome a is set in
\* genome b, the weight of a's selection is <= the weight of b's, and a is
\* feasible whenever b is.
C16_SubsetIsLighter ==
    (fit.done /\ InRange /\ Selected(fit.a, fit.inst.n) \subseteq Selected(fit.b, fit.inst.n)) =>
        /\ fit.wa <= fit.wb
        /\ (~fit.rb.ninf) => ~fit.ra.ninf

\* item 1 alone against items 0 and 1, on an instance where item 0 is lighter
C16_Witness ==
    /\ fit.done
    /\ fit.inst = [n |-> 2, weights |-> <<1, 2>>, values |-> <<1, 2>>, capacity |-> 3]
    /\ fit.a = 1
    /\ fit.b = 3
    /\ fit.wa = 2
    /\ fit.wb = 3
    /\ ~fit.rb.ninf
    /\ ~fit.ra.ninf

-----------------------------------------------------------------------------
(* Further properties of the driver *)

\* the degenerate configuration: one initial genome, selection fraction 1.0
SingleGenomeConfig ==
    /\ cfg.init_pop_size = 1
    /\ cfg.selection_percentage = Fraction(1, 1)

\* C14: with an initial population of one genome and selection fraction 1.0
\* every cycle ends at once with that genome as its winner: the loop body is
\* never entered, nothing is selected, no island task exists, and the genome
\* built by init_population is the one recorded.
C14_SingleGenomeCycle ==
    /\ [](SingleGenomeConfig =>
            /\ pc \in {"for", "while", "cycle_done", "returned", "raised"}
            /\ futures = <<>>
            /\ iter = FreshIter
            /\ (pc \in {"while", "cycle_done"}) => Len(population) = 1
            /\ (pc = "for" /\ c > 0) => winner_genomes[c] = population[1])
    /\ [][(SingleGenomeConfig /\ pc \in {"while", "cycle_done"})
              => population' = population]_vars

\* two such cycles, each won by its initial genome
C14_Witness ==
    /\ cfg.init_pop_size = 1
    /\ cfg.selection_percentage = Fraction(1, 1)
    /\ pc = "for"
    /\ c = 2
    /\ winner_genomes = <<2, 1>>
    /\ population = <<1>>
    /\ iter = FreshIter

\* C17: within a cycle the population at the start of an iteration is never
\* larger than it was at the start of the previous iteration.
C17_SizeNeverGrows ==
    (ValidConfig(cfg) /\ AfterMerge) => Len(population) <= iter.start_len

\* C18: every island task of a generation is handed the survivors of that
\* generation's selection, whatever the driver has meanwhile done to its
\* population variable, and what an island returns is offspring of those
\* survivors alone.
C18_IslandsReadSurvivors ==
    \A i \in DOMAIN futures :
        /\ futures[i].arg = iter.survivors
        /\ (futures[i].state = "done")
               => futures[i].result \in crossover_mutation(iter.survivors)

\* one island's offspring is already in the accumulator, the other island is
\* still running on the survivors
C18_Witness ==
    /\ pc = "collect"
    /\ Len(futures) = 2
    /\ collected = <<1>>
    /\ iter.survivors = <<1, 2>>
    /\ population = <<3, 0>>
    /\ futures[2].state = "running"
    /\ futures[2].arg = <<1, 2>>

\* C19: generations and cycles do not overlap: a generation has exactly
\* k_parallel island tasks, submitted after a selection, and no island task is
\* running when the driver is anywhere but in that generation's collection
\* (loop test, guard, selection, recording of the winner, start of a cycle).
C19_NoOverlap ==
    /\ (pc \notin {"collect", "aborting"})
           => \A i \in DOMAIN futures : futures[i].state # "running"
    /\ (pc \in {"collect", "aborting"})
           => /\ Len(futures) = cfg.k_parallel
              /\ iter.selected
              /\ ~iter.guard
    /\ (futures # <<>>) => Len(futures) = cfg.k_parallel

\* the second cycle's first generation has been merged: both tasks are done
C19_Witness ==
    /\ AfterMerge
    /\ c = 2
    /\ Len(winner_genomes) = 1
    /\ cfg.k_parallel = 2
    /\ Len(futures) = 2
    /\ futures[1].state = "done"
    /\ futures[2].state = "done"

=============================================================================
